---- MODULE Spec2Model ----
(***************************************************************************)
(* The feed-state engine of photo-liker (src/server.js): the in-memory     *)
(* photo store, reactions, the bounded comment ledger, the ranked and      *)
(* paginated feed, and the three HTTP handlers that drive them.            *)
(*                                                                         *)
(* JavaScript values that cross the request boundary are tagged tuples     *)
(* <<type, payload>>, so that `typeof`, falsiness and === can be computed  *)
(* as the code computes them.  Text is a sequence of one-character strings.*)
(*                                                                         *)
(* A handler of a POST request is two steps, split where the code awaits   *)
(* readJsonBody: Arrive, then HandleLike / HandleComment / RejectBody.     *)
(* The handler of GET /api/feed has no await and is one step.              *)
(*                                                                         *)
(* Four specifications drive the same steps with different inputs:         *)
(*   Spec        one connection, every kind of request body and query;     *)
(*   SpecConc    several connections suspended at once;                    *)
(*   SpecLedger  one photo commented past MAX_COMMENTS_PER_PHOTO;          *)
(*   SpecSeed    a store seeded with three photos, paged two at a time.    *)
(* SpecByUrl is the url-keyed variant of the server (src/unnamed/part_000).*)
(***************************************************************************)
EXTENDS Integers, Sequences, FiniteSets, TLC

VARIABLES
    photos,     \* feedState.photos: the store, in creation order
    now,        \* the value Date.now() currently returns
    inflight,   \* per connection: the handler suspended at `await readJsonBody`
    lastReq,    \* the request whose handler ran last (its parsed inputs)
    response,   \* what that handler passed to sendJson
    nReact,     \* number of /api/like handlers run to completion
    nComment,   \* number of /api/comment handlers run to completion
    nFeed,      \* number of /api/feed handlers run to completion
    reacted,    \* per photo object (ref): the /api/like handlers that updated it
    appended    \* per photo object (ref): the comments pushed on its ledger, in order

vars == <<photos, now, inflight, lastReq, response, nReact, nComment, nFeed, reacted,
          appended>>

----------------------------------------------------------------------------
(* Program constants *)

INITIAL_PHOTO_COUNT == 18
MAX_COMMENTS_PER_PHOTO == 80
MAX_COMMENT_LENGTH == 240
DEFAULT_PAGE_SIZE == 8
\* the `+ 2` of ensurePhotos(cursor + limit + 2)
FEED_MARGIN == 2
\* the `slice(-6)` of serializePhoto
VISIBLE_COMMENTS == 6
\* the `slice(-5)` of getFeed in src/unnamed/part_000
URL_VISIBLE_COMMENTS == 5
CAT_URL == "https://cataas.com/cat/gif"

----------------------------------------------------------------------------
(* Bounds of the model *)

\* Date.now() takes the values 0..MaxClock
MaxClock == 1
\* handlers run to completion in Spec; handlers of /api/like run to
\* completion in SpecLedger
MaxOps == 2
\* handlers of /api/feed run to completion in SpecLedger
MaxLedgerFeeds == 1
\* a feed request makes ensurePhotos create at most this many photos
MaxGrow == 3
\* connections that may be suspended in readJsonBody at once (SpecConc)
MaxConns == 2
\* handlers run to completion in SpecConc
MaxConcOps == 3
\* Comment requests completed in SpecLedger beyond the ledger cap
MaxOverCap == 2
\* photos the store is seeded with in SpecSeed
EndToEndSeed == 3
\* handlers run to completion in SpecUrl
MaxUrlOps == 6

----------------------------------------------------------------------------
(* JavaScript values *)

Undefined == <<"undefined", <<>>>>
Str(s) == <<"string", s>>
Num(n) == <<"number", n>>
TypeOf(v) == v[1]
\* !v, for the values used here: undefined, '' and 0 are falsy
Falsy(v) == v = Undefined \/ v = Str(<<>>) \/ v = Num(0)

Min(a, b) == IF a < b THEN a ELSE b
Max(a, b) == IF a > b THEN a ELSE b

\* Array.prototype.slice(from, to) for 0 <= from <= to, 0-based, end exclusive
Slice(s, from, to) == SubSeq(s, from + 1, Min(to, Len(s)))
\* Array.prototype.slice(-n)
SliceLast(s, n) == SubSeq(s, Max(1, Len(s) - n + 1), Len(s))
\* Array.prototype.reverse on a copy
Reverse(s) == [i \in 1..Len(s) |-> s[Len(s) + 1 - i]]

----------------------------------------------------------------------------
(* sanitizeText: text.replace(/\s+/g, ' ').trim().slice(0, MAX_COMMENT_LENGTH) *)

IsSpace(c) == c \in {" ", "\t", "\n"}

RECURSIVE SkipSpace(_)
SkipSpace(s) ==
    IF s # <<>> /\ IsSpace(Head(s)) THEN SkipSpace(Tail(s)) ELSE s

\* replace(/\s+/g, ' '): every maximal run of whitespace becomes one space
RECURSIVE CollapseSpace(_)
CollapseSpace(s) ==
    IF s = <<>> THEN <<>>
    ELSE IF IsSpace(Head(s)) THEN <<" ">> \o CollapseSpace(SkipSpace(s))
    ELSE <<Head(s)>> \o CollapseSpace(Tail(s))

RECURSIVE TrimEnd(_)
TrimEnd(s) ==
    IF s # <<>> /\ IsSpace(s[Len(s)]) THEN TrimEnd(SubSeq(s, 1, Len(s) - 1)) ELSE s

Trim(s) == TrimEnd(SkipSpace(s))

\* sanitizeText without the trim()
sanitizeTextNoTrim(text) == Slice(CollapseSpace(text), 0, MAX_COMMENT_LENGTH)

sanitizeText(text) == Slice(Trim(CollapseSpace(text)), 0, MAX_COMMENT_LENGTH)

----------------------------------------------------------------------------
(* The store *)

\* createPhoto(): t is the reading of Date.now(), r the Math.random() draw.
\* ref is the identity of the JavaScript object (its allocation number); the
\* program never reads it, it only tells two objects with equal fields apart.
createPhoto(t, r, ref) ==
    [ ref       |-> ref,
      id        |-> Str(<<"cat", t, r>>),
      url       |-> CAT_URL,
      likes     |-> 0,
      dislikes  |-> 0,
      comments  |-> <<>>,
      updatedAt |-> t ]

\* ensurePhotos(minCount) on the store ps; draws[k] is the random draw of the
\* k-th photo it creates.
\* how many photos ensurePhotos(minCount) creates
Shortfall(ps, minCount) == Max(0, minCount - Len(ps))

\* ensurePhotos with `do { push } while (length < minCount)`: it creates a
\* photo before it looks at the length
ensurePhotosDoWhile(ps, minCount, t, draws) ==
    ps \o [k \in 1..Max(1, Shortfall(ps, minCount)) |->
              createPhoto(t, IF k <= Len(draws) THEN draws[k] ELSE 0, Len(ps) + k)]

RECURSIVE ensurePhotos(_, _, _, _)
ensurePhotos(ps, minCount, t, draws) ==
    IF Len(ps) < minCount
    THEN ensurePhotos(Append(ps, createPhoto(t, Head(draws), Len(ps) + 1)),
                      minCount, t, Tail(draws))
    ELSE ps

\* Array.prototype.find(photo => photo.id === photoId): index of the first match, 0 if none
FindPhoto(ps, photoId) ==
    IF \E i \in 1..Len(ps) : ps[i].id = photoId
    THEN CHOOSE i \in 1..Len(ps) :
            ps[i].id = photoId /\ \A j \in 1..(i - 1) : ps[j].id # photoId
    ELSE 0

\* getOrCreatePhoto with `photos[0] = photo` for `photos.unshift(photo)`
getOrCreatePhotoOverwrite(ps, photoId, t) ==
    IF Falsy(photoId) THEN [photos |-> ps, idx |-> 1]
    ELSE IF FindPhoto(ps, photoId) # 0
    THEN [photos |-> ps, idx |-> FindPhoto(ps, photoId)]
    ELSE [photos |-> [ps EXCEPT ![1] =
                        [createPhoto(t, 0, Len(ps) + 1) EXCEPT !.id = photoId]],
          idx    |-> 1]

\* getOrCreatePhoto with `photos.push(photo)` for `photos.unshift(photo)`
getOrCreatePhotoPush(ps, photoId, t) ==
    IF Falsy(photoId) THEN [photos |-> ps, idx |-> 1]
    ELSE IF FindPhoto(ps, photoId) # 0
    THEN [photos |-> ps, idx |-> FindPhoto(ps, photoId)]
    ELSE [photos |-> Append(ps, [createPhoto(t, 0, Len(ps) + 1) EXCEPT !.id = photoId]),
          idx    |-> Len(ps) + 1]

\* getOrCreatePhoto(photoId): the store afterwards and the position of the
\* photo returned.  The id createPhoto() draws is overwritten by photoId.
getOrCreatePhoto(ps, photoId, t) ==
    IF Falsy(photoId) THEN [photos |-> ps, idx |-> 1]
    ELSE IF FindPhoto(ps, photoId) # 0
    THEN [photos |-> ps, idx |-> FindPhoto(ps, photoId)]
    ELSE [photos |-> <<[createPhoto(t, 0, Len(ps) + 1) EXCEPT !.id = photoId]>> \o ps,
          idx    |-> 1]

\* addReaction with `=` for `+=`
addReactionAssign(ps, action, photoId, t) ==
    LET got == getOrCreatePhoto(ps, photoId, t)
        i   == got.idx
        p   == got.photos[i]
        q   == IF action = "dislike"
               THEN [p EXCEPT !.dislikes = 1]
               ELSE [p EXCEPT !.likes = 1]
    IN [photos |-> [got.photos EXCEPT ![i] = [q EXCEPT !.updatedAt = t]],
        idx    |-> i]

\* addReaction(action, photoId)
addReaction(ps, action, photoId, t) ==
    LET got == getOrCreatePhoto(ps, photoId, t)
        i   == got.idx
        p   == got.photos[i]
        q   == IF action = "dislike"
               THEN [p EXCEPT !.dislikes = p.dislikes + 1]
               ELSE [p EXCEPT !.likes = p.likes + 1]
    IN [photos |-> [got.photos EXCEPT ![i] = [q EXCEPT !.updatedAt = t]],
        idx    |-> i]

\* the comment entry addComment builds; seq is the identity of the entry
\* object (the number of the append that made it), never read by the program
CommentEntry(cleanText, photo, t, r, seq) ==
    [ seq       |-> seq,
      id        |-> <<t, r>>,
      text      |-> cleanText,
      photoId   |-> photo.id,
      timestamp |-> t ]

\* addComment comparing the ledger length with MAX_COMMENT_LENGTH
addCommentWrongCap(ps, text, photoId, t, r, seq) ==
    LET cleanText == sanitizeText(text)
    IN IF cleanText = <<>> THEN [threw |-> TRUE, photos |-> ps, idx |-> 0]
       ELSE LET got    == getOrCreatePhoto(ps, photoId, t)
                i      == got.idx
                p      == got.photos[i]
                pushed == Append(p.comments, CommentEntry(cleanText, p, t, r, seq))
                kept   == IF Len(pushed) > MAX_COMMENT_LENGTH
                          THEN Tail(pushed) ELSE pushed
            IN [threw  |-> FALSE,
                photos |-> [got.photos EXCEPT
                               ![i] = [p EXCEPT !.comments = kept, !.updatedAt = t]],
                idx    |-> i]

\* addComment with `photo.comments.pop()` for `photo.comments.shift()`
addCommentPop(ps, text, photoId, t, r, seq) ==
    LET cleanText == sanitizeText(text)
    IN IF cleanText = <<>> THEN [threw |-> TRUE, photos |-> ps, idx |-> 0]
       ELSE LET got    == getOrCreatePhoto(ps, photoId, t)
                i      == got.idx
                p      == got.photos[i]
                pushed == Append(p.comments, CommentEntry(cleanText, p, t, r, seq))
                kept   == IF Len(pushed) > MAX_COMMENTS_PER_PHOTO
                          THEN SubSeq(pushed, 1, Len(pushed) - 1) ELSE pushed
            IN [threw  |-> FALSE,
                photos |-> [got.photos EXCEPT
                               ![i] = [p EXCEPT !.comments = kept, !.updatedAt = t]],
                idx    |-> i]

\* addComment resolving the photo before it looks at the text
addCommentResolveFirst(ps, text, photoId, t, r, seq) ==
    LET cleanText == sanitizeText(text)
        got       == getOrCreatePhoto(ps, photoId, t)
        i         == got.idx
        p         == got.photos[i]
        pushed    == Append(p.comments, CommentEntry(cleanText, p, t, r, seq))
        kept      == IF Len(pushed) > MAX_COMMENTS_PER_PHOTO
                     THEN Tail(pushed) ELSE pushed
    IN IF cleanText = <<>> THEN [threw |-> TRUE, photos |-> got.photos, idx |-> 0]
       ELSE [threw  |-> FALSE,
             photos |-> [got.photos EXCEPT
                            ![i] = [p EXCEPT !.comments = kept, !.updatedAt = t]],
             idx    |-> i]

\* addComment(text, photoId): threw = TRUE models `throw new Error('Comment
\* text is required.')`; photos is the store as addComment leaves it.
addComment(ps, text, photoId, t, r, seq) ==
    LET cleanText == sanitizeText(text)
    IN IF cleanText = <<>> THEN [threw |-> TRUE, photos |-> ps, idx |-> 0]
       ELSE LET got    == getOrCreatePhoto(ps, photoId, t)
                i      == got.idx
                p      == got.photos[i]
                pushed == Append(p.comments, CommentEntry(cleanText, p, t, r, seq))
                kept   == IF Len(pushed) > MAX_COMMENTS_PER_PHOTO
                          THEN Tail(pushed) ELSE pushed
            IN [threw  |-> FALSE,
                photos |-> [got.photos EXCEPT
                               ![i] = [p EXCEPT !.comments = kept, !.updatedAt = t]],
                idx    |-> i]

----------------------------------------------------------------------------
(* Totals, projection, ranking *)

\* serializePhoto with `slice(0, 6)` for `slice(-6)`
serializePhotoFirstSix(p) ==
    [ ref       |-> p.ref,
      id        |-> p.id,
      url       |-> p.url,
      likes     |-> p.likes,
      dislikes  |-> p.dislikes,
      updatedAt |-> p.updatedAt,
      activity  |-> p.likes + p.dislikes + Len(p.comments),
      comments  |-> Reverse(Slice(p.comments, 0, VISIBLE_COMMENTS)) ]

\* serializePhoto counting the comments after the slice
serializePhotoTailActivity(p) ==
    [ ref       |-> p.ref,
      id        |-> p.id,
      url       |-> p.url,
      likes     |-> p.likes,
      dislikes  |-> p.dislikes,
      updatedAt |-> p.updatedAt,
      activity  |-> p.likes + p.dislikes + Len(SliceLast(p.comments, VISIBLE_COMMENTS)),
      comments  |-> Reverse(SliceLast(p.comments, VISIBLE_COMMENTS)) ]

\* serializePhoto(photo)
serializePhoto(p) ==
    [ ref       |-> p.ref,
      id        |-> p.id,
      url       |-> p.url,
      likes     |-> p.likes,
      dislikes  |-> p.dislikes,
      updatedAt |-> p.updatedAt,
      activity  |-> p.likes + p.dislikes + Len(p.comments),
      comments  |-> Reverse(SliceLast(p.comments, VISIBLE_COMMENTS)) ]

\* the reducer of computeTotals, applied from the left with accumulator acc
RECURSIVE ReduceTotals(_, _)
ReduceTotals(ps, acc) ==
    IF ps = <<>> THEN acc
    ELSE ReduceTotals(Tail(ps),
                      [ likes    |-> acc.likes + Head(ps).likes,
                        dislikes |-> acc.dislikes + Head(ps).dislikes,
                        comments |-> acc.comments + Len(Head(ps).comments) ])

\* computeTotals over the projections, whose comments are the visible tail
computeTotalsOfProjections(ps) ==
    ReduceTotals([i \in 1..Len(ps) |-> serializePhoto(ps[i])],
                 [likes |-> 0, dislikes |-> 0, comments |-> 0])

\* computeTotals(photos)
computeTotals(ps) == ReduceTotals(ps, [likes |-> 0, dislikes |-> 0, comments |-> 0])

Activity(p) == p.likes + p.dislikes + Len(p.comments)

\* the comparator with the tie broken oldest first
CompareOldestFirst(a, b) ==
    IF Activity(b) = Activity(a) THEN a.updatedAt - b.updatedAt
    ELSE Activity(b) - Activity(a)

\* the comparator of getFeed's sort: negative puts a first
Compare(a, b) ==
    IF Activity(b) = Activity(a) THEN b.updatedAt - a.updatedAt
    ELSE Activity(b) - Activity(a)

\* Array.prototype.sort is stable: x goes after every element it does not
\* strictly precede
RECURSIVE InsertSorted(_, _)
InsertSorted(sorted, x) ==
    IF sorted = <<>> THEN <<x>>
    ELSE IF Compare(x, Head(sorted)) < 0 THEN <<x>> \o sorted
    ELSE <<Head(sorted)>> \o InsertSorted(Tail(sorted), x)

RECURSIVE SortPhotos(_)
SortPhotos(ps) ==
    IF ps = <<>> THEN <<>>
    ELSE InsertSorted(SortPhotos(SubSeq(ps, 1, Len(ps) - 1)), ps[Len(ps)])

\* getFeed with slice(cursor, limit) for slice(cursor, cursor + limit)
getFeedSliceToLimit(ps, cursor, limit, t, draws) ==
    LET grown   == ensurePhotos(ps, cursor + limit + FEED_MARGIN, t, draws)
        ordered == SortPhotos(grown)
        page    == Slice(ordered, cursor, limit)
    IN [ photos |-> grown,
         result |-> [ totals     |-> computeTotals(ordered),
                      photos     |-> [i \in 1..Len(page) |-> serializePhoto(page[i])],
                      nextCursor |-> cursor + limit ] ]

\* getFeed with ensurePhotos(limit + 2) for ensurePhotos(cursor + limit + 2)
getFeedGrowForLimit(ps, cursor, limit, t, draws) ==
    LET grown   == ensurePhotos(ps, limit + FEED_MARGIN, t, draws)
        ordered == SortPhotos(grown)
        page    == Slice(ordered, cursor, cursor + limit)
    IN [ photos |-> grown,
         result |-> [ totals     |-> computeTotals(ordered),
                      photos     |-> [i \in 1..Len(page) |-> serializePhoto(page[i])],
                      nextCursor |-> cursor + limit ] ]

\* getFeed with feedState.photos.sort(..) for [...feedState.photos].sort(..)
getFeedSortInPlace(ps, cursor, limit, t, draws) ==
    LET grown   == ensurePhotos(ps, cursor + limit + FEED_MARGIN, t, draws)
        ordered == SortPhotos(grown)
        page    == Slice(ordered, cursor, cursor + limit)
    IN [ photos |-> ordered,
         result |-> [ totals     |-> computeTotals(ordered),
                      photos     |-> [i \in 1..Len(page) |-> serializePhoto(page[i])],
                      nextCursor |-> cursor + limit ] ]

\* getFeed({cursor, limit}): the store afterwards and the value returned
getFeed(ps, cursor, limit, t, draws) ==
    LET grown   == ensurePhotos(ps, cursor + limit + FEED_MARGIN, t, draws)
        ordered == SortPhotos(grown)
        page    == Slice(ordered, cursor, cursor + limit)
    IN [ photos |-> grown,
         result |-> [ totals     |-> computeTotals(ordered),
                      photos     |-> [i \in 1..Len(page) |-> serializePhoto(page[i])],
                      nextCursor |-> cursor + limit ] ]

----------------------------------------------------------------------------
(* Requests *)

\* JSON.parse(body) gave null
Null == <<"null", <<>>>>
\* JSON.parse(body) gave an object; a field the request leaves out is Undefined
Obj(action, photoId, text) ==
    <<"object", [action |-> action, photoId |-> photoId, text |-> text]>>

\* Number(param) || fallback, for an absent, non-numeric or numeric query parameter
NumberOr(param, fallback) ==
    IF TypeOf(param) = "number" /\ param[2] # 0 THEN param[2] ELSE fallback

\* String(body.text || '')
TextOf(body) ==
    IF Falsy(body[2].text) THEN <<>> ELSE body[2].text[2]

\* typeof body.photoId === 'string' ? body.photoId : undefined
PhotoIdOf(body) ==
    IF TypeOf(body[2].photoId) = "string" THEN body[2].photoId ELSE Undefined

\* the fallback reversed: body?.action === 'like' ? 'like' : 'dislike'
ActionOfDefaultDislike(body) ==
    IF body # Null /\ body[2].action = Str("like") THEN "like" ELSE "dislike"

\* body?.action === 'dislike' ? 'dislike' : 'like'
ActionOf(body) ==
    IF body # Null /\ body[2].action = Str("dislike") THEN "dislike" ELSE "like"

\* others: how many other handlers were suspended in readJsonBody when this one ran
NoRequest ==
    [op |-> "none", body |-> Null, cursor |-> Undefined, limit |-> Undefined, others |-> 0]
NoResponse == [kind |-> "none", status |-> 0]

\* sendJson(res, 400, { error: err.message })
ErrorResponse(message) == [kind |-> "error", status |-> 400, error |-> message]

\* sendJson(res, 201, { status: 'ok', photo: serializePhoto(photo), totals: computeTotals() })
PhotoResponse(kind, ps, idx) ==
    [ kind   |-> kind,
      status |-> 201,
      photo  |-> serializePhoto(ps[idx]),
      totals |-> computeTotals(ps) ]

\* sendJson(res, 200, getFeed({ cursor, limit }))
FeedResponse(result) ==
    [ kind       |-> "feed",
      status     |-> 200,
      totals     |-> result.totals,
      photos     |-> result.photos,
      nextCursor |-> result.nextCursor ]

----------------------------------------------------------------------------
(* Initial state: the module has been loaded, ensurePhotos(INITIAL_PHOTO_COUNT)
   has run.  The 18 random draws are taken pairwise distinct (SeedDraw). *)

Conns == 1..MaxConns

SeedDraw(k) == 100 + k

Init ==
    /\ now = 0
    /\ photos = ensurePhotos(<<>>, INITIAL_PHOTO_COUNT, 0,
                             [k \in 1..INITIAL_PHOTO_COUNT |-> SeedDraw(k)])
    /\ inflight = [c \in Conns |-> "idle"]
    /\ lastReq = NoRequest
    /\ response = NoResponse
    /\ nReact = 0
    /\ nComment = 0
    /\ nFeed = 0
    /\ reacted = [ref \in {} |-> 0]
    /\ appended = [ref \in {} |-> <<>>]

----------------------------------------------------------------------------
(* Steps *)

Suspended(c) == Cardinality({d \in Conns \ {c} : inflight[d] # "idle"})

Count(ref) == IF ref \in DOMAIN reacted THEN reacted[ref] ELSE 0

Pushed(ref) == IF ref \in DOMAIN appended THEN appended[ref] ELSE <<>>

\* Date.now() advances
Tick ==
    /\ now < MaxClock
    /\ now' = now + 1
    /\ UNCHANGED <<photos, inflight, lastReq, response, nReact, nComment, nFeed, reacted,
                   appended>>

\* A POST to /api/like or /api/comment arrives on connection c: the handler
\* runs up to `await readJsonBody(req)` and is suspended there.
Arrive(c, route) ==
    /\ inflight[c] = "idle"
    /\ inflight' = [inflight EXCEPT ![c] = route]
    /\ UNCHANGED <<photos, now, lastReq, response, nReact, nComment, nFeed, reacted,
                   appended>>

\* readJsonBody rejects ('Invalid JSON body'): the catch block answers 400.
RejectBody(c) ==
    /\ inflight[c] # "idle"
    /\ inflight' = [inflight EXCEPT ![c] = "idle"]
    /\ lastReq' = [NoRequest EXCEPT !.op = inflight[c], !.others = Suspended(c)]
    /\ response' = ErrorResponse("Invalid JSON body")
    /\ UNCHANGED <<photos, now, nReact, nComment, nFeed, reacted, appended>>

\* The body of a POST /api/like has been read: the rest of the handler runs
\* without yielding.  Reading body.photoId of null throws a TypeError.
HandleLike(c, body) ==
    /\ inflight[c] = "like"
    /\ inflight' = [inflight EXCEPT ![c] = "idle"]
    /\ lastReq' = [NoRequest EXCEPT !.op = "like", !.body = body,
                                    !.others = Suspended(c)]
    /\ nReact' = nReact + 1
    /\ IF body = Null
       THEN /\ response' = ErrorResponse("TypeError")
            /\ UNCHANGED <<photos, reacted>>
       ELSE LET done == addReaction(photos, ActionOf(body), PhotoIdOf(body), now)
                ref  == done.photos[done.idx].ref
            IN /\ photos' = done.photos
               /\ response' = PhotoResponse("like", done.photos, done.idx)
               /\ reacted' = [r \in DOMAIN reacted \cup {ref} |->
                                 IF r = ref THEN Count(r) + 1 ELSE Count(r)]
    /\ UNCHANGED <<now, nComment, nFeed, appended>>

\* The body of a POST /api/comment has been read; r is the random draw of
\* the comment's id.  The handler sanitizes the text and addComment
\* sanitizes it again.
HandleComment(c, body, r) ==
    /\ inflight[c] = "comment"
    /\ inflight' = [inflight EXCEPT ![c] = "idle"]
    /\ lastReq' = [NoRequest EXCEPT !.op = "comment", !.body = body,
                                    !.others = Suspended(c)]
    /\ nComment' = nComment + 1
    /\ IF body = Null
       THEN /\ response' = ErrorResponse("TypeError")
            /\ UNCHANGED <<photos, appended>>
       ELSE LET text == sanitizeText(TextOf(body))
                done == addComment(photos, text, PhotoIdOf(body), now, r, nComment + 1)
            IN /\ photos' = done.photos
               /\ IF done.threw
                  THEN /\ response' = ErrorResponse("Comment text is required.")
                       /\ UNCHANGED appended
                  ELSE LET ref == done.photos[done.idx].ref
                       IN /\ response' = PhotoResponse("comment", done.photos, done.idx)
                          /\ appended' =
                                [x \in DOMAIN appended \cup {ref} |->
                                    IF x = ref THEN Append(Pushed(x), nComment + 1)
                                    ELSE Pushed(x)]
    /\ UNCHANGED <<now, nReact, nFeed, reacted>>

\* GET /api/feed?cursor=..&limit=..: the handler never yields.  draws are
\* the random draws of the photos ensurePhotos creates.
HandleFeed(cursorParam, limitParam, draws) ==
    LET cursor == NumberOr(cursorParam, 0)
        limit  == NumberOr(limitParam, DEFAULT_PAGE_SIZE)
        done   == getFeed(photos, cursor, limit, now, draws)
    IN /\ Len(draws) = Shortfall(photos, cursor + limit + FEED_MARGIN)
       /\ photos' = done.photos
       /\ lastReq' = [NoRequest EXCEPT !.op = "feed", !.cursor = cursorParam,
                                       !.limit = limitParam,
                                       !.others = Suspended(0)]
       /\ response' = FeedResponse(done.result)
       /\ nFeed' = nFeed + 1
       /\ UNCHANGED <<now, inflight, nReact, nComment, reacted, appended>>

----------------------------------------------------------------------------
(* Inputs *)

\* the Math.random() draw of a comment id
Rand == {1}

\* the draws of a run of ensurePhotos that creates k photos: pairwise
\* distinct, or all the same
Draws(k) == {[i \in 1..k |-> i], [i \in 1..k |-> 1]}

\* An id no photo has until a client names it
NewId == Str(<<"x", 0, 1>>)

\* Bodies of POST /api/like: null, {}, and objects whose action is absent,
\* 'like', 'dislike' or unrecognized and whose photoId is absent, not a
\* string, empty, unknown, or the id of the second photo of the store
LikeBodies ==
    { Null,
      Obj(Undefined, Undefined, Undefined),
      Obj(Str("like"), NewId, Undefined),
      Obj(Str("dislike"), Num(42), Undefined),
      Obj(Str("explode"), Str(<<>>), Undefined),
      Obj(Str("explode"), photos[2].id, Undefined) }

\* Bodies of POST /api/comment: null, and objects whose text is absent,
\* whitespace only, or has letters between runs of whitespace
CommentBodies ==
    { Null,
      Obj(Undefined, Undefined, Undefined),
      Obj(Undefined, NewId, Str(<<" ", "\t">>)),
      Obj(Undefined, Undefined, Str(<<"a">>)),
      Obj(Undefined, NewId, Str(<<" ", "a", " ", "\n", "b", " ">>)),
      Obj(Undefined, photos[2].id, Str(<<"a">>)) }

\* how many photos GET /api/feed with the query q makes ensurePhotos create
Growth(q) ==
    Shortfall(photos, NumberOr(q[1], 0) + NumberOr(q[2], DEFAULT_PAGE_SIZE) + FEED_MARGIN)

\* the next page: a client that was last answered a feed asks again with
\* cursor = the nextCursor it was given and the same limit
NextPage == <<Num(response.nextCursor), lastReq.limit>>

ContinueInputs ==
    IF response.kind = "feed" /\ Growth(NextPage) <= MaxGrow THEN {NextPage} ELSE {}

\* <<cursor, limit>> of GET /api/feed: both absent; a non-numeric cursor and
\* limit 0 (the defaults again); a page as long as the population; limit 1
\* at the offset that makes ensurePhotos create no photo, and at the one
\* that makes it create MaxGrow photos (at or past the end of the
\* population); the next page
FeedInputs ==
    { <<Undefined, Undefined>>, <<Str(<<"x">>), Num(0)>>,
      <<Undefined, Num(Len(photos))>>,
      <<Num(Len(photos) - FEED_MARGIN - 1), Num(1)>>,
      <<Num(Len(photos) - FEED_MARGIN - 1 + MaxGrow), Num(1)>> } \cup ContinueInputs

FeedStep ==
    \E q \in FeedInputs :
        \E draws \in Draws(Growth(q)) : HandleFeed(q[1], q[2], draws)

----------------------------------------------------------------------------
(* Spec: one connection, every kind of input *)

nOps == nReact + nComment + nFeed

Next ==
    \/ Tick
    \/ \E route \in {"like", "comment"} : Arrive(1, route)
    \/ RejectBody(1)
    \/ nOps < MaxOps /\ \E body \in LikeBodies : HandleLike(1, body)
    \/ nOps < MaxOps /\ \E body \in CommentBodies, r \in Rand :
            HandleComment(1, body, r)
    \/ nOps < MaxOps /\ FeedStep

Spec == Init /\ [][Next]_vars

----------------------------------------------------------------------------
(* SpecConc: MaxConns connections whose handlers are suspended in
   readJsonBody at the same time and resume in any order *)

ConcLikeBodies ==
    { Obj(Undefined, Undefined, Undefined),
      Obj(Str("dislike"), Undefined, Undefined),
      Obj(Str("like"), NewId, Undefined) }

ConcCommentBodies == { Obj(Undefined, Undefined, Str(<<"a">>)) }

nConcOps == nReact + nComment

NextConc ==
    \/ Tick
    \/ \E c \in Conns, route \in {"like", "comment"} : Arrive(c, route)
    \/ \E c \in Conns : RejectBody(c)
    \/ nConcOps < MaxConcOps /\ \E c \in Conns, body \in ConcLikeBodies :
            HandleLike(c, body)
    \/ nConcOps < MaxConcOps /\ \E c \in Conns, body \in ConcCommentBodies :
            HandleComment(c, body, 1)

SpecConc == Init /\ [][NextConc]_vars

----------------------------------------------------------------------------
(* SpecLedger: one photo is commented past MAX_COMMENTS_PER_PHOTO, with
   reactions, a new photo and feed requests in between.  Every request is
   served within one reading of Date.now(). *)

\* the id of the first seeded photo, as a client that saw it in a feed sends it
FirstSeedId == Str(<<"cat", 0, SeedDraw(1)>>)

LedgerCommentBodies == { Obj(Undefined, FirstSeedId, Str(<<"a">>)) }

LedgerLikeBodies ==
    { Obj(Undefined, Undefined, Undefined),
      Obj(Str("dislike"), NewId, Undefined) }

\* a page of one photo that makes ensurePhotos create one photo
LedgerFeedInputs == { <<Num(Len(photos) - FEED_MARGIN), Num(1)>> }

NextLedger ==
    \/ \E route \in {"like", "comment"} : Arrive(1, route)
    \/ nComment < MAX_COMMENTS_PER_PHOTO + MaxOverCap
            /\ \E body \in LedgerCommentBodies : HandleComment(1, body, 1)
    \/ nReact < MaxOps /\ \E body \in LedgerLikeBodies : HandleLike(1, body)
    \/ nFeed < MaxLedgerFeeds /\ \E q \in LedgerFeedInputs :
            HandleFeed(q[1], q[2],
                       [i \in 1..Shortfall(photos, NumberOr(q[1], 0)
                            + NumberOr(q[2], DEFAULT_PAGE_SIZE) + FEED_MARGIN) |-> 1])

SpecLedger == Init /\ [][NextLedger]_vars

----------------------------------------------------------------------------
(* SpecSeed: the store is seeded with EndToEndSeed photos instead of
   INITIAL_PHOTO_COUNT, and a client pages through the feed two photos at a
   time. *)

InitSeed ==
    /\ now = 0
    /\ photos = ensurePhotos(<<>>, EndToEndSeed, 0,
                             [k \in 1..EndToEndSeed |-> SeedDraw(k)])
    /\ inflight = [c \in Conns |-> "idle"]
    /\ lastReq = NoRequest
    /\ response = NoResponse
    /\ nReact = 0
    /\ nComment = 0
    /\ nFeed = 0
    /\ reacted = [ref \in {} |-> 0]
    /\ appended = [ref \in {} |-> <<>>]

\* the first page of two; the next page; cursor 2 with the default limit
SeedFeedInputs ==
    { <<Num(0), Num(2)>>, <<Num(2), Undefined>> } \cup ContinueInputs

NextSeed ==
    \/ Tick
    \/ \E route \in {"like", "comment"} : Arrive(1, route)
    \/ nOps < MaxOps /\ \E body \in LikeBodies : HandleLike(1, body)
    \/ nOps < MaxOps /\ \E body \in CommentBodies, r \in Rand :
            HandleComment(1, body, r)
    \/ nOps < MaxOps /\ \E q \in SeedFeedInputs :
            \E draws \in Draws(Growth(q)) : HandleFeed(q[1], q[2], draws)

SpecSeed == InitSeed /\ [][NextSeed]_vars

----------------------------------------------------------------------------
(* The url-keyed variant of the server (src/unnamed/part_000, from line 171):
   photos are found by url, there is no pagination and every answer carries
   the whole feed.  Its definitions carry the suffix ByUrl; sanitizeText,
   the action of a like and MAX_COMMENTS_PER_PHOTO are the same as in
   src/server.js.  The variant runs in the same variables: photos is its
   feedState.photos.  The width and height of the first initial photo, which
   the code only copies, are left out. *)

\* the urls of INITIAL_PHOTOS
INITIAL_PHOTOS ==
    << Str(<<"ebv">>), Str(<<"horizon">>), Str(<<"moonlit">>) >>

\* a url no photo has until a client names it
NewUrl == Str(<<"new">>)

\* the photo object getOrCreatePhoto and the initial map build
PhotoByUrl(url, t, ref) ==
    [ ref       |-> ref,
      url       |-> url,
      likes     |-> 0,
      dislikes  |-> 0,
      comments  |-> <<>>,
      updatedAt |-> t ]

FindByUrl(ps, url) ==
    IF \E i \in 1..Len(ps) : ps[i].url = url
    THEN CHOOSE i \in 1..Len(ps) :
            ps[i].url = url /\ \A j \in 1..(i - 1) : ps[j].url # url
    ELSE 0

\* getOrCreatePhoto(photoUrl): a photo it creates is pushed at the end
getOrCreatePhotoByUrl(ps, photoUrl, t) ==
    IF FindByUrl(ps, photoUrl) # 0
    THEN [photos |-> ps, idx |-> FindByUrl(ps, photoUrl)]
    ELSE [photos |-> Append(ps, PhotoByUrl(photoUrl, t, Len(ps) + 1)),
          idx    |-> Len(ps) + 1]

\* photoUrl || INITIAL_PHOTOS[0].url
UrlOrDefault(photoUrl) == IF Falsy(photoUrl) THEN INITIAL_PHOTOS[1] ELSE photoUrl

\* addReaction(action, photoUrl)
addReactionByUrl(ps, action, photoUrl, t) ==
    LET got == getOrCreatePhotoByUrl(ps, UrlOrDefault(photoUrl), t)
        i   == got.idx
        p   == got.photos[i]
        q   == IF action = "dislike"
               THEN [p EXCEPT !.dislikes = p.dislikes + 1]
               ELSE [p EXCEPT !.likes = p.likes + 1]
    IN [photos |-> [got.photos EXCEPT ![i] = [q EXCEPT !.updatedAt = t]],
        idx    |-> i]

\* addComment(text, photoUrl)
addCommentByUrl(ps, text, photoUrl, t, r, seq) ==
    LET cleanText == sanitizeText(text)
    IN IF cleanText = <<>> THEN [threw |-> TRUE, photos |-> ps, idx |-> 0]
       ELSE LET got    == getOrCreatePhotoByUrl(ps, UrlOrDefault(photoUrl), t)
                i      == got.idx
                p      == got.photos[i]
                entry  == [ seq       |-> seq,
                            id        |-> <<t, r>>,
                            text      |-> cleanText,
                            photoUrl  |-> p.url,
                            timestamp |-> t ]
                pushed == Append(p.comments, entry)
                kept   == IF Len(pushed) > MAX_COMMENTS_PER_PHOTO
                          THEN Tail(pushed) ELSE pushed
            IN [threw  |-> FALSE,
                photos |-> [got.photos EXCEPT
                               ![i] = [p EXCEPT !.comments = kept, !.updatedAt = t]],
                idx    |-> i]

\* the object getFeed maps a photo to
ProjectByUrl(p) ==
    [ ref       |-> p.ref,
      url       |-> p.url,
      likes     |-> p.likes,
      dislikes  |-> p.dislikes,
      updatedAt |-> p.updatedAt,
      activity  |-> p.likes + p.dislikes + Len(p.comments),
      comments  |-> Reverse(SliceLast(p.comments, URL_VISIBLE_COMMENTS)) ]

\* the comparator of getFeed's sort, on the mapped objects
CompareByUrl(a, b) ==
    IF b.activity = a.activity THEN b.updatedAt - a.updatedAt
    ELSE b.activity - a.activity

RECURSIVE InsertSortedByUrl(_, _)
InsertSortedByUrl(sorted, x) ==
    IF sorted = <<>> THEN <<x>>
    ELSE IF CompareByUrl(x, Head(sorted)) < 0 THEN <<x>> \o sorted
    ELSE <<Head(sorted)>> \o InsertSortedByUrl(Tail(sorted), x)

RECURSIVE SortByUrl(_)
SortByUrl(ps) ==
    IF ps = <<>> THEN <<>>
    ELSE InsertSortedByUrl(SortByUrl(SubSeq(ps, 1, Len(ps) - 1)), ps[Len(ps)])

\* getFeed(): the photos are mapped, then sorted, and the totals are reduced
\* from the mapped objects, whose comments are the slice
getFeedByUrl(ps) ==
    LET mapped == SortByUrl([i \in 1..Len(ps) |-> ProjectByUrl(ps[i])])
    IN [ totals |-> ReduceTotals(mapped, [likes |-> 0, dislikes |-> 0, comments |-> 0]),
         photos |-> mapped ]

\* JSON.parse(body) gave an object of the variant's requests
ObjByUrl(action, photoUrl, text) ==
    <<"object", [action |-> action, photoUrl |-> photoUrl, text |-> text]>>

\* typeof body.photoUrl === 'string' ? body.photoUrl : INITIAL_PHOTOS[0].url
PhotoUrlOf(body) ==
    IF TypeOf(body[2].photoUrl) = "string" THEN body[2].photoUrl ELSE INITIAL_PHOTOS[1]

\* sendJson(res, 201, { status: 'ok', feed: getFeed() })
PostResponseByUrl(kind, ps) ==
    [kind |-> kind, status |-> 201, feed |-> getFeedByUrl(ps)]

\* sendJson(res, 200, getFeed())
FeedResponseByUrl(ps) ==
    [ kind   |-> "feed",
      status |-> 200,
      totals |-> getFeedByUrl(ps).totals,
      photos |-> getFeedByUrl(ps).photos ]

InitByUrl ==
    /\ now = 0
    /\ photos = [k \in 1..Len(INITIAL_PHOTOS) |-> PhotoByUrl(INITIAL_PHOTOS[k], 0, k)]
    /\ inflight = [c \in Conns |-> "idle"]
    /\ lastReq = NoRequest
    /\ response = NoResponse
    /\ nReact = 0
    /\ nComment = 0
    /\ nFeed = 0
    /\ reacted = [ref \in {} |-> 0]
    /\ appended = [ref \in {} |-> <<>>]

\* POST /api/like of the variant, after its body has been read
HandleLikeByUrl(c, body) ==
    /\ inflight[c] = "like"
    /\ inflight' = [inflight EXCEPT ![c] = "idle"]
    /\ lastReq' = [NoRequest EXCEPT !.op = "like", !.body = body,
                                    !.others = Suspended(c)]
    /\ nReact' = nReact + 1
    /\ IF body = Null
       THEN /\ response' = ErrorResponse("TypeError")
            /\ UNCHANGED <<photos, reacted>>
       ELSE LET done == addReactionByUrl(photos, ActionOf(body), PhotoUrlOf(body), now)
                ref  == done.photos[done.idx].ref
            IN /\ photos' = done.photos
               /\ response' = PostResponseByUrl("like", done.photos)
               /\ reacted' = [x \in DOMAIN reacted \cup {ref} |->
                                 IF x = ref THEN Count(x) + 1 ELSE Count(x)]
    /\ UNCHANGED <<now, nComment, nFeed, appended>>

\* POST /api/comment of the variant, after its body has been read
HandleCommentByUrl(c, body, r) ==
    /\ inflight[c] = "comment"
    /\ inflight' = [inflight EXCEPT ![c] = "idle"]
    /\ lastReq' = [NoRequest EXCEPT !.op = "comment", !.body = body,
                                    !.others = Suspended(c)]
    /\ nComment' = nComment + 1
    /\ IF body = Null
       THEN /\ response' = ErrorResponse("TypeError")
            /\ UNCHANGED <<photos, appended>>
       ELSE LET text == sanitizeText(TextOf(body))
                done == addCommentByUrl(photos, text, PhotoUrlOf(body), now, r,
                                        nComment + 1)
            IN /\ photos' = done.photos
               /\ IF done.threw
                  THEN /\ response' = ErrorResponse("Comment text is required.")
                       /\ UNCHANGED appended
                  ELSE LET ref == done.photos[done.idx].ref
                       IN /\ response' = PostResponseByUrl("comment", done.photos)
                          /\ appended' =
                                [x \in DOMAIN appended \cup {ref} |->
                                    IF x = ref THEN Append(Pushed(x), nComment + 1)
                                    ELSE Pushed(x)]
    /\ UNCHANGED <<now, nReact, nFeed, reacted>>

\* GET /api/feed of the variant
HandleFeedByUrl ==
    /\ lastReq' = [NoRequest EXCEPT !.op = "feed", !.others = Suspended(0)]
    /\ response' = FeedResponseByUrl(photos)
    /\ nFeed' = nFeed + 1
    /\ UNCHANGED <<photos, now, inflight, nReact, nComment, reacted, appended>>

\* bodies of the variant's POST /api/like: {}, and a dislike of a new url
LikeBodiesByUrl ==
    { ObjByUrl(Undefined, Undefined, Undefined),
      ObjByUrl(Str("dislike"), NewUrl, Undefined) }

\* bodies of the variant's POST /api/comment: a text and no url, a
\* whitespace text, a text for the second initial photo
CommentBodiesByUrl ==
    { ObjByUrl(Undefined, Undefined, Str(<<"a">>)),
      ObjByUrl(Undefined, Str(<<>>), Str(<<" ">>)),
      ObjByUrl(Undefined, INITIAL_PHOTOS[2], Str(<<" ", "b">>)) }

NextByUrl ==
    \/ Tick
    \/ \E route \in {"like", "comment"} : Arrive(1, route)
    \/ RejectBody(1)
    \/ nOps < MaxUrlOps /\ \E body \in LikeBodiesByUrl : HandleLikeByUrl(1, body)
    \/ nOps < MaxUrlOps /\ \E body \in CommentBodiesByUrl :
            HandleCommentByUrl(1, body, 1)
    \/ nOps < MaxUrlOps /\ HandleFeedByUrl

SpecByUrl == InitByUrl /\ [][NextByUrl]_vars

----------------------------------------------------------------------------
(* Properties *)

RECURSIVE SumSeq(_)
SumSeq(ns) == IF ns = <<>> THEN 0 ELSE Head(ns) + SumSeq(Tail(ns))

HasRef(ps, ref) == \E i \in 1..Len(ps) : ps[i].ref = ref
\* the photo object ref in the store ps
ByRef(ps, ref) == ps[CHOOSE i \in 1..Len(ps) : ps[i].ref = ref]
\* its counters before it existed
Fresh == [likes |-> 0, dislikes |-> 0, comments |-> <<>>]
Before(ps, ref) == IF HasRef(ps, ref) THEN ByRef(ps, ref) ELSE Fresh

Answered == response.kind \in {"like", "comment", "feed"}
OnlySpace(text) == \A i \in 1..Len(text) : IsSpace(text[i])

\* C1: the totals of every like, comment and feed response are the sums of
\* the like counts, of the dislike counts and of the full ledger lengths of
\* all photos of the store, whatever page or comment tail the response shows.
C1_TotalsArePopulationSums ==
    Answered =>
        /\ response.totals.likes
             = SumSeq([i \in 1..Len(photos) |-> photos[i].likes])
        /\ response.totals.dislikes
             = SumSeq([i \in 1..Len(photos) |-> photos[i].dislikes])
        /\ response.totals.comments
             = SumSeq([i \in 1..Len(photos) |-> Len(photos[i].comments)])

\* a feed page was returned while a photo outside the shown tail length
\* holds more comments than a projection shows, and there are likes and dislikes
C1_Witness ==
    /\ response.kind = "feed"
    /\ \E i \in 1..Len(photos) : Len(photos[i].comments) > VISIBLE_COMMENTS
    /\ response.totals.likes > 0
    /\ response.totals.dislikes > 0
    /\ response.totals.comments > VISIBLE_COMMENTS
    /\ Len(response.photos) < Len(photos)

\* C2: no photo's ledger ever holds more than MAX_COMMENTS_PER_PHOTO comments.
C2_LedgerWithinCap ==
    \A i \in 1..Len(photos) : Len(photos[i].comments) <= MAX_COMMENTS_PER_PHOTO

\* more comments were appended to one photo than its ledger may hold
C2_Witness ==
    /\ nComment > MAX_COMMENTS_PER_PHOTO
    /\ \E i \in 1..Len(photos) :
          /\ Len(photos[i].comments) = MAX_COMMENTS_PER_PHOTO
          /\ photos[i].comments[1].seq > 1

\* C3: a feed request with numeric cursor >= 0 and limit > 0 returns the
\* slice [cursor, cursor + limit) of the ranked store, min(limit, population
\* - cursor) photos long (none when cursor >= population), and
\* nextCursor = cursor + limit.
C3_PageIsSliceOfRanking ==
    ( /\ response.kind = "feed"
      /\ TypeOf(lastReq.cursor) = "number" /\ lastReq.cursor[2] >= 0
      /\ TypeOf(lastReq.limit) = "number" /\ lastReq.limit[2] > 0 )
    => LET cursor == lastReq.cursor[2]
           limit  == lastReq.limit[2]
           ranked == SortPhotos(photos)
           count  == IF cursor >= Len(photos) THEN 0
                     ELSE Min(limit, Len(photos) - cursor)
       IN /\ Len(response.photos) = count
          /\ \A i \in 1..count : response.photos[i].ref = ranked[cursor + i].ref
          /\ response.nextCursor = cursor + limit

\* a page of one photo was asked for at an offset past the seeded
\* population, and one photo was returned
C3_Witness ==
    /\ response.kind = "feed"
    /\ TypeOf(lastReq.cursor) = "number"
    /\ lastReq.cursor[2] >= INITIAL_PHOTO_COUNT
    /\ lastReq.limit = Num(1)
    /\ Len(response.photos) = 1
    /\ response.nextCursor = lastReq.cursor[2] + 1

\* C4: in every returned page, of two adjacent photos the earlier has the
\* higher activity or, with equal activity, was updated no earlier.
C4_PageIsRanked ==
    response.kind = "feed" =>
        \A i \in 1..(Len(response.photos) - 1) :
            LET earlier == response.photos[i]
                later   == response.photos[i + 1]
            IN /\ earlier.activity = Activity(ByRef(photos, earlier.ref))
               /\ later.activity = Activity(ByRef(photos, later.ref))
               /\ earlier.activity >= later.activity
               /\ earlier.activity = later.activity
                    => earlier.updatedAt >= later.updatedAt

\* a page holds a photo created later than its equally active neighbour,
\* which the store holds before it, and so lists it first
C4_Witness ==
    /\ response.kind = "feed"
    /\ \E i \in 1..(Len(response.photos) - 1) :
          /\ response.photos[i].activity = response.photos[i + 1].activity
          /\ response.photos[i].updatedAt > response.photos[i + 1].updatedAt
          /\ response.photos[i].ref > response.photos[i + 1].ref

\* C5: a like request whose body is an object is answered 201; with action
\* 'dislike' the resolved photo's dislikes grow by one and its likes stay,
\* with any other action, or none, its likes grow by one and its dislikes stay.
C5_ReactKinds ==
    [][ (nReact' = nReact + 1 /\ lastReq'.body # Null) =>
          /\ response'.kind = "like"
          /\ response'.status = 201
          /\ LET ref == response'.photo.ref
                 old == Before(photos, ref)
                 new == ByRef(photos', ref)
             IN IF lastReq'.body[2].action = Str("dislike")
                THEN new.dislikes = old.dislikes + 1 /\ new.likes = old.likes
                ELSE new.likes = old.likes + 1 /\ new.dislikes = old.dislikes
      ]_vars

\* an unrecognized action was counted as a like
C5_Witness ==
    /\ lastReq.op = "like"
    /\ lastReq.body # Null
    /\ lastReq.body[2].action = Str("explode")
    /\ response.kind = "like"
    /\ response.photo.likes = 1
    /\ response.photo.dislikes = 0

\* C6: a comment request whose body is an object is refused, with 'Comment
\* text is required.', exactly when its text is absent or all whitespace;
\* otherwise it is answered 201 and the resolved photo's ledger is the old
\* ledger with the one new comment at its end (less its oldest comment, if
\* the old ledger was full).  A like request (body an
\* object) and a feed request are never refused.
C6_OnlyEmptyTextFails ==
    [][ /\ (nComment' = nComment + 1 /\ lastReq'.body # Null) =>
             IF OnlySpace(TextOf(lastReq'.body))
             THEN response' = ErrorResponse("Comment text is required.")
             ELSE /\ response'.kind = "comment"
                  /\ response'.status = 201
                  /\ LET ref == response'.photo.ref
                         old == Before(photos, ref).comments
                         new == ByRef(photos', ref).comments
                     IN /\ new # <<>>
                        /\ new[Len(new)].seq = nComment'
                        /\ \/ new = Append(old, new[Len(new)])
                           \/ /\ Len(old) = MAX_COMMENTS_PER_PHOTO
                              /\ new = Tail(Append(old, new[Len(new)]))
        /\ (nReact' = nReact + 1 /\ lastReq'.body # Null) => response'.kind = "like"
        /\ (nFeed' = nFeed + 1) => response'.kind = "feed"
      ]_vars

\* a whitespace-only text was refused
C6_Witness ==
    /\ lastReq.op = "comment"
    /\ lastReq.body # Null
    /\ lastReq.body[2].text = Str(<<" ", "\t">>)
    /\ response = ErrorResponse("Comment text is required.")

\* C7: no two photos of the store have the same id.
C7_IdsUnique ==
    \A i, j \in 1..Len(photos) : photos[i].id = photos[j].id => i = j

\* C8: a feed request, which calls ensurePhotos(N) with N = cursor + limit +
\* FEED_MARGIN, leaves the store max(previous length, N) long with the
\* photos it held unchanged at its front; a feed request that follows a feed
\* request with the same or a greater N leaves the store as it is.
C8_EnsurePhotosIdempotent ==
    [][ (nFeed' = nFeed + 1) =>
          LET N == response'.nextCursor + FEED_MARGIN
          IN /\ Len(photos') = Max(Len(photos), N)
             /\ SubSeq(photos', 1, Len(photos)) = photos
             /\ (lastReq.op = "feed" /\ N <= response.nextCursor + FEED_MARGIN)
                   => photos' = photos
      ]_vars

\* two feed requests in a row: the first made the store grow by two or more,
\* the second asked for less and left it alone
C8_Witness ==
    /\ nFeed = 2 /\ nReact = 0 /\ nComment = 0
    /\ Len(photos) >= INITIAL_PHOTO_COUNT + 2
    /\ response.kind = "feed"
    /\ response.nextCursor + FEED_MARGIN < Len(photos)

\* C9: the store is never empty; from one state to the next every photo
\* stays in the store with its id, and its likes, its dislikes and the
\* length of its ledger do not decrease.
C9_NothingShrinks ==
    [][ /\ Len(photos) >= 1
        /\ Len(photos') >= 1
        /\ {photos[i].id : i \in 1..Len(photos)}
              \subseteq {photos'[i].id : i \in 1..Len(photos')}
        /\ \A i \in 1..Len(photos) :
              /\ HasRef(photos', photos[i].ref)
              /\ LET new == ByRef(photos', photos[i].ref)
                 IN /\ new.id = photos[i].id
                    /\ new.likes >= photos[i].likes
                    /\ new.dislikes >= photos[i].dislikes
                    /\ Len(new.comments) >= Len(photos[i].comments)
      ]_vars

\* a full ledger has evicted a comment, a client has added a photo and a
\* feed request has made the store grow
C9_Witness ==
    /\ nComment > MAX_COMMENTS_PER_PHOTO
    /\ \E i \in 1..Len(photos) : Len(photos[i].comments) = MAX_COMMENTS_PER_PHOTO
    /\ photos[1].id = NewId
    /\ photos[1].dislikes > 0
    /\ Len(photos) > INITIAL_PHOTO_COUNT + 1

\* C10: whatever the order in which suspended handlers resume, every photo's
\* likes + dislikes is the number of like handlers that updated it.
C10_NoLostReaction ==
    \A i \in 1..Len(photos) :
        photos[i].likes + photos[i].dislikes = Count(photos[i].ref)

\* a like handler resumed while another handler was suspended, and its photo
\* has now been updated by three like handlers
C10_Witness ==
    /\ lastReq.op = "like"
    /\ lastReq.others >= 1
    /\ response.kind = "like"
    /\ Count(response.photo.ref) = 3
    /\ response.photo.likes + response.photo.dislikes = 3

\* the photo objects a response's page shows
OnPage(resp) == {resp.photos[i].ref : i \in 1..Len(resp.photos)}

\* C11: on a store seeded with EndToEndSeed = 3 photos, with no reaction and
\* no comment, GET /api/feed?cursor=0&limit=2 returns 2 photos and
\* nextCursor 2, and a following request with cursor=2 returns every seeded
\* photo that was not on the first page and, besides those, only photos
\* that ensurePhotos created since.
C11_EndToEnd ==
    [][ ( /\ nReact = 0 /\ nComment = 0 /\ nFeed = 1
          /\ lastReq.cursor = Num(0) /\ lastReq.limit = Num(2)
          /\ nFeed' = 2 /\ lastReq'.cursor = Num(2) )
        => /\ Len(response.photos) = 2
           /\ response.nextCursor = 2
           /\ (1..EndToEndSeed) \ OnPage(response) \subseteq OnPage(response')
           /\ \A ref \in OnPage(response') :
                 ref \in (1..EndToEndSeed) \ OnPage(response) \/ ref > EndToEndSeed
      ]_vars

\* the position of the photo object ref in the ranking of the store ps
RankOf(ps, ref) ==
    CHOOSE i \in 1..Len(ps) : SortPhotos(ps)[i].ref = ref

\* C19: when a feed request is followed, with no like or comment request in
\* between, by the request for the next page (cursor = the nextCursor
\* returned, same limit), no photo is on both pages, and no seeded photo
\* that was ranked after the first page is ranked before the second.
C19_PagesNeitherRepeatNorSkip ==
    [][ ( /\ lastReq.op = "feed" /\ response.kind = "feed"
          /\ nFeed' = nFeed + 1
          /\ lastReq'.cursor = Num(response.nextCursor)
          /\ lastReq'.limit = lastReq.limit )
        => /\ OnPage(response) \cap OnPage(response') = {}
           /\ \A ref \in 1..INITIAL_PHOTO_COUNT :
                 RankOf(photos, ref) > response.nextCursor
                    => RankOf(photos', ref) > response.nextCursor
      ]_vars

\* the effective cursor and limit of the feed request that ran last
LastCursor == NumberOr(lastReq.cursor, 0)
LastLimit == NumberOr(lastReq.limit, DEFAULT_PAGE_SIZE)

\* C12: after a feed request with cursor >= 0 and limit > 0 the store holds
\* at least cursor + limit + FEED_MARGIN photos and the page returned holds
\* exactly limit photos.
C12_PageNeverShort ==
    (response.kind = "feed" /\ LastCursor >= 0 /\ LastLimit > 0) =>
        /\ Len(photos) >= LastCursor + LastLimit + FEED_MARGIN
        /\ Len(response.photos) = LastLimit

\* the first request of a run asked for one photo at an offset at or past
\* the end of the seeded store, the store grew by MaxGrow, and one photo
\* was returned
C12_Witness ==
    /\ nFeed = 1 /\ nReact = 0 /\ nComment = 0
    /\ response.kind = "feed"
    /\ LastCursor >= INITIAL_PHOTO_COUNT
    /\ Len(photos) = INITIAL_PHOTO_COUNT + MaxGrow
    /\ Len(response.photos) = 1

\* the projections a response carries
Projections(resp) ==
    IF resp.kind = "feed" THEN {resp.photos[i] : i \in 1..Len(resp.photos)}
    ELSE IF resp.kind \in {"like", "comment"} THEN {resp.photo}
    ELSE {}

\* shown is the last min(VISIBLE_COMMENTS, length) entries of ledger, the
\* most recent first
IsVisibleTail(shown, ledger) ==
    /\ Len(shown) = Min(VISIBLE_COMMENTS, Len(ledger))
    /\ \A j \in 1..Len(shown) : shown[j] = ledger[Len(ledger) + 1 - j]

\* C13: the comments of every projection in a like, comment or feed
\* response are the last min(6, length) comments of the photo's ledger, most
\* recent first; a like or feed request leaves every ledger as it was, and
\* a comment request changes the ledger of its photo only, by the one push
\* (and the one shift of a full ledger).
C13_ProjectionIsTail ==
    [][ /\ \A proj \in Projections(response') :
              IsVisibleTail(proj.comments, ByRef(photos', proj.ref).comments)
        /\ \A i \in 1..Len(photos) :
              LET old == photos[i].comments
                  new == ByRef(photos', photos[i].ref).comments
              IN \/ new = old
                 \/ /\ response'.kind = "comment"
                    /\ response'.photo.ref = photos[i].ref
                    /\ new = SliceLast(Append(old, new[Len(new)]),
                                       MAX_COMMENTS_PER_PHOTO)
      ]_vars

\* a like response shows the six most recent of more than six comments,
\* the newest first
C13_Witness ==
    /\ response.kind = "like"
    /\ Len(ByRef(photos, response.photo.ref).comments) > VISIBLE_COMMENTS
    /\ Len(response.photo.comments) = VISIBLE_COMMENTS
    /\ response.photo.comments[1].seq = nComment
    /\ response.photo.comments[VISIBLE_COMMENTS].seq = nComment - VISIBLE_COMMENTS + 1

\* C14: the activity of every projection in a like, comment or feed
\* response is the photo's likes + dislikes + full ledger length in the
\* store as the handler left it.
C14_ActivityIsCurrent ==
    \A proj \in Projections(response) :
        LET p == ByRef(photos, proj.ref)
        IN proj.activity = p.likes + p.dislikes + Len(p.comments)

\* a comment response for a photo with reactions and more comments than a
\* projection shows
C14_Witness ==
    /\ response.kind = "comment"
    /\ response.photo.likes > 0
    /\ Len(response.photo.comments) = VISIBLE_COMMENTS
    /\ response.photo.activity > response.photo.likes + VISIBLE_COMMENTS

\* C15: every photo's ledger holds the last min(k, MAX_COMMENTS_PER_PHOTO)
\* of the k comments pushed on it, in the order they were pushed.
C15_LedgerIsFifo ==
    \A i \in 1..Len(photos) :
        [j \in 1..Len(photos[i].comments) |-> photos[i].comments[j].seq]
            = SliceLast(Pushed(photos[i].ref), MAX_COMMENTS_PER_PHOTO)

\* more comments than the cap were pushed on one photo, with a like
\* request, a new photo and a feed request along the way
C15_Witness ==
    /\ \E i \in 1..Len(photos) :
          /\ Len(Pushed(photos[i].ref)) = MAX_COMMENTS_PER_PHOTO + MaxOverCap
          /\ photos[i].comments[1].seq = MaxOverCap + 1
          /\ photos[i].likes > 0
    /\ nFeed > 0
    /\ photos[1].id = NewId

\* C17: a comment request refused with 'Comment text is required.' leaves
\* the store exactly as it was.
C17_RefusedCommentChangesNothing ==
    [][ ( /\ nComment' = nComment + 1
          /\ response' = ErrorResponse("Comment text is required.") )
        => photos' = photos
      ]_vars

\* a comment naming an id no photo has was refused, and no photo has that id
C17_Witness ==
    /\ lastReq.op = "comment"
    /\ lastReq.body # Null
    /\ PhotoIdOf(lastReq.body) = NewId
    /\ response = ErrorResponse("Comment text is required.")
    /\ FindPhoto(photos, NewId) = 0

\* C18: an answered like or comment request that names a non-empty id no
\* photo has puts the new photo first in the store, before the photos it
\* held, in their order; one that names no id, or an empty one, resolves to
\* the first photo of the store; a feed request leaves the photos the
\* store held at their positions, the first included.
C18_DefaultIsFirst ==
    [][ /\ ( /\ nReact' = nReact + 1 \/ nComment' = nComment + 1
             /\ response'.kind \in {"like", "comment"} )
           => LET photoId == PhotoIdOf(lastReq'.body)
              IN /\ (~Falsy(photoId) /\ FindPhoto(photos, photoId) = 0)
                      => /\ Len(photos') = Len(photos) + 1
                         /\ photos'[1].id = photoId
                         /\ photos'[1].ref = response'.photo.ref
                         /\ ~HasRef(photos, photos'[1].ref)
                         /\ \A i \in 1..Len(photos) :
                               photos'[i + 1].ref = photos[i].ref
                 /\ Falsy(photoId)
                      => /\ response'.photo.ref = photos[1].ref
                         /\ photos'[1].ref = photos[1].ref
        /\ nFeed' = nFeed + 1
           => \A i \in 1..Len(photos) : photos'[i].ref = photos[i].ref
      ]_vars

\* a like request without an id resolved to the photo a client had just
\* added under a new id
C18_Witness ==
    /\ lastReq.op = "like"
    /\ lastReq.body # Null
    /\ PhotoIdOf(lastReq.body) = Undefined
    /\ response.kind = "like"
    /\ response.photo.id = NewId
    /\ photos[1].id = NewId
    /\ photos[1].likes = 2

\* C20: an answered like or comment request leaves every photo but the
\* resolved one as it was, adds the resolved one if the id named was
\* unknown and no other, and changes of the resolved one only updatedAt and
\* one counter (like) or the ledger (comment); a feed request leaves every
\* photo as it was and appends only photos without reactions and comments.
C20_Frame ==
    [][ /\ ( /\ nReact' = nReact + 1 \/ nComment' = nComment + 1
             /\ response'.kind \in {"like", "comment"} )
           => LET ref == response'.photo.ref
                  new == ByRef(photos', ref)
                  old == IF HasRef(photos, ref) THEN ByRef(photos, ref)
                         ELSE [new EXCEPT !.likes = 0, !.dislikes = 0, !.comments = <<>>]
              IN /\ \A i \in 1..Len(photos) :
                       photos[i].ref # ref => ByRef(photos', photos[i].ref) = photos[i]
                 /\ {photos'[i].ref : i \in 1..Len(photos')}
                       = {photos[i].ref : i \in 1..Len(photos)} \cup {ref}
                 /\ Len(photos') = Len(photos) + (IF HasRef(photos, ref) THEN 0 ELSE 1)
                 /\ HasRef(photos, ref) <=> ( \/ Falsy(PhotoIdOf(lastReq'.body))
                                              \/ FindPhoto(photos, PhotoIdOf(lastReq'.body)) # 0 )
                 /\ new.id = old.id /\ new.url = old.url
                 /\ IF response'.kind = "like"
                    THEN /\ new.comments = old.comments
                         /\ \/ new.likes = old.likes + 1 /\ new.dislikes = old.dislikes
                            \/ new.likes = old.likes /\ new.dislikes = old.dislikes + 1
                    ELSE /\ new.likes = old.likes
                         /\ new.dislikes = old.dislikes
        /\ nFeed' = nFeed + 1
           => /\ SubSeq(photos', 1, Len(photos)) = photos
              /\ \A i \in (Len(photos) + 1)..Len(photos') :
                    /\ photos'[i].likes = 0
                    /\ photos'[i].dislikes = 0
                    /\ photos'[i].comments = <<>>
      ]_vars

\* a feed request made the store grow after a like on its second photo
C20_Witness ==
    /\ response.kind = "feed"
    /\ nReact = 1
    /\ photos[2].likes + photos[2].dislikes = 1
    /\ Len(photos) > INITIAL_PHOTO_COUNT
    /\ photos[Len(photos)].likes = 0

\* the totals a response of the url-keyed variant carries
TotalsByUrl(resp) == IF resp.kind = "feed" THEN resp.totals ELSE resp.feed.totals

\* C16: in the url-keyed variant, the totals.comments of every like,
\* comment and feed response is the sum of the ledger lengths of all photos.
C16_UrlTotalsCountLedgers ==
    Answered =>
        TotalsByUrl(response).comments
            = SumSeq([i \in 1..Len(photos) |-> Len(photos[i].comments)])

====
